---- MODULE Spec2Model ----
(***************************************************************************)
(* Model of the Google Calendar client of inbox/events/google.py: the      *)
(* paginated fetch loop (_get_resource_list) with its 401 retry, the 410   *)
(* fallback of _get_raw_events, the delete/upsert classification of        *)
(* get_calendars / get_events, and the attendee status translation.        *)
(***************************************************************************)
EXTENDS Integers, Sequences, FiniteSets, TLC

(* ------------------------------ bounds -------------------------------- *)
MaxPages == 2
MaxPageLen == 2
Max401 == 2
MaxNoRaise == 1

(* ------------------------- values of the program ---------------------- *)
CALENDARS_URL == "https://www.googleapis.com/calendar/v3/users/me/calendarList"

\* Python's None, and the marker of a key that is not in a dict.
None == "None"
Absent == "absent"

CalendarUids == {"u@g"}
SyncTimes == {"2015-03-11T02:42:57"}

\* urllib.quote on the calendar uids of the model: '@' is percent-encoded.
Quote(uid) == IF uid = "u@g" THEN "u%40g" ELSE uid

EventsUrl(calendar_uid) ==
    "https://www.googleapis.com/calendar/v3/calendars/" \o Quote(calendar_uid) \o "/events"

\* datetime.isoformat(sync_from_time) + 'Z'; None stays None.
FormatSyncFromTime(sync_from_time) ==
    IF sync_from_time # None THEN sync_from_time \o "Z" ELSE None

\* _get_access_token: the n-th token handed out by the token manager, each
\* one different from those before.
AccessToken(n) == n

\* OAuth.__call__: the Authorization header of a request.
OAuth(tok) == <<"Bearer", tok>>

(* ------------------------------ the remote ---------------------------- *)
\* Raw items: a calendarList entry carries 'deleted', an event carries 'status'.
CalendarItems == { [id |-> 1, deleted |-> FALSE, status |-> Absent],
                   [id |-> 2, deleted |-> TRUE,  status |-> Absent] }
EventItems == { [id |-> 1, deleted |-> FALSE, status |-> "confirmed"],
                [id |-> 2, deleted |-> FALSE, status |-> "cancelled"] }

SeqsUpTo(S, n) == UNION { [1..k -> S] : k \in 0..n }

PageListsOf(S) == UNION { [1..k -> SeqsUpTo(S, MaxPageLen)] : k \in 1..MaxPages }

\* Opaque page cursors handed out by the remote: CursorTo(k) asks for page k.
CursorNames == <<"p1", "p2", "p3", "p4", "p5", "p6">>
CursorTo(k) == CursorNames[k]

\* The page a request asks for: the first one without pageToken, 0 for a
\* cursor the remote never handed out for this list.
PageIndex(pageToken, pages) ==
    IF pageToken = Absent THEN 1
    ELSE IF \E k \in 2..Len(pages) : CursorTo(k) = pageToken
         THEN CHOOSE k \in 2..Len(pages) : CursorTo(k) = pageToken
         ELSE 0

\* nextPageToken of page k of the list (data.get('nextPageToken')).
NextPageTokenOf(k, pages) == IF k < Len(pages) THEN CursorTo(k + 1) ELSE None

\* What the remote serves for the events query filtered by updatedMin: the
\* pages of the entries updated since, here the later pages of the list
\* (at least one page, as every list response is a page); the whole list
\* without a filter.
UpdatedMinViews(pages, sft) ==
    IF sft = None THEN {pages}
    ELSE { SubSeq(pages, j, Len(pages)) : j \in 1..Len(pages) }

\* Statuses the remote answers with: success, an authentication failure, a
\* client and a server error, and 304 for the statuses that are neither 200
\* nor 401 nor errors (1xx, the other 2xx, 3xx), which the code treats alike.
Statuses == {200, 304, 401, 410, 500}

\* requests.Response.raise_for_status raises HTTPError for 4xx and 5xx only.
RaisesForStatus(s) == 400 <= s /\ s < 600

(* ------------------------------ state --------------------------------- *)
VARIABLES
    op,               \* "none" | "get_calendars" | "get_events"
    sync_from_time,   \* argument of get_events (None for get_calendars)
    pc,               \* "idle" | "loop" | "wait" | "returned" | "failed"
    pass,             \* number of _get_resource_list calls started
    url, params,      \* arguments of the running _get_resource_list
    token,            \* local token
    items,            \* local items (accumulator)
    next_page_token,  \* local next_page_token
    req,              \* the GET request in flight / last issued
    lastStatus,       \* status of the last response (0: none yet)
    fullPages,        \* the pages the remote holds for the unfiltered query
    remotePages,      \* the pages the remote holds for the running query
    served,           \* indices of the pages answered with 200, this pass
    n401, nNoRaise,   \* responses of this pass: 401s, ignored non-errors
    nAcq, nReq,       \* token acquisitions and GET requests of this pass
    result,           \* <<>> or <<deletes, updates>> returned to the caller
    err,              \* 0 or the status of the HTTPError raised to the caller
    tpc,              \* position of the attendee translation
    participant,      \* a participant of a local event (dict)
    attendee,         \* an attendee of a remote event (dict)
    back,             \* what translating there and back gives
    epc,              \* get_events after its fetch: "off" | "fetched" | "returned" | "failed"
    raw_events,       \* the items _get_raw_events returned
    eresult,          \* <<>> or <<deletes, updates>> returned by get_events
    eexc,             \* "" or the exception get_events raised
    mpc,              \* a remote mutation: "off" | "idle" | "wait" | "returned" | "failed"
    mcall,            \* the mutation requested: method, url, json body
    msent,            \* the requests issued by the mutation, in order
    mtokens,          \* number of tokens the mutation acquired
    mstatus,          \* status of the response to the mutation (0: none yet)
    calls,            \* the locals of each of the concurrent sync calls
    handed,           \* number of tokens the token manager handed out
    mailpc,           \* create_email: "off" | "called" | "built" | "failed"
    to_addr, cc_addr, bcc_addr,   \* arguments of create_email
    headers           \* msg.headers after lines 102-113

fetchVars == <<op, sync_from_time, pc, pass, url, params, token, items,
               next_page_token, req, lastStatus, fullPages, remotePages,
               served, n401, nNoRaise, nAcq, nReq, result, err>>
translateVars == <<tpc, participant, attendee, back>>
eventVars == <<epc, raw_events, eresult, eexc>>
mutateVars == <<mpc, mcall, msent, mtokens, mstatus>>
callVars == <<calls, handed>>
mailVars == <<mailpc, to_addr, cc_addr, bcc_addr, headers>>
vars == <<fetchVars, translateVars, eventVars, mutateVars, callVars, mailVars>>

\* What a fetch step, and a translation step, leave alone.
notFetchVars == <<translateVars, eventVars, mutateVars, callVars, mailVars>>
notTranslateVars == <<fetchVars, eventVars, mutateVars, callVars, mailVars>>

NoParams == [showDeleted |-> Absent, singleEvents |-> Absent,
             updatedMin |-> Absent, pageToken |-> Absent]
NoReq == [url |-> "", params |-> NoParams, auth |-> <<>>]

\* Ghost counters stop counting at CounterCap, which the capped
\* specification never reaches.
CounterCap == MaxPages + Max401 + MaxNoRaise + 1
Inc(n) == IF n < CounterCap THEN n + 1 ELSE n

NoParticipant == [name |-> Absent, status |-> Absent, email |-> Absent,
                  guests |-> Absent, notes |-> Absent]
NoAttendee == [displayName |-> Absent, responseStatus |-> Absent, email |-> Absent,
               additionalGuests |-> Absent, comment |-> Absent]

InitFetch ==
    /\ op = "none" /\ sync_from_time = None /\ pc = "idle" /\ pass = 0
    /\ url = "" /\ params = NoParams /\ token = 0 /\ items = <<>>
    /\ next_page_token = None /\ req = NoReq /\ lastStatus = 0
    /\ fullPages = <<>> /\ remotePages = <<>> /\ served = <<>>
    /\ n401 = 0 /\ nNoRaise = 0 /\ nAcq = 0 /\ nReq = 0
    /\ result = <<>> /\ err = 0

NoCall == [method |-> "", url |-> "", json |-> Absent]
NoHeaders == [To |-> Absent, Cc |-> Absent, Bcc |-> Absent]

\* The parts of the model that a specification does not exercise.
OffTranslate ==
    /\ tpc = "off" /\ participant = NoParticipant /\ attendee = NoAttendee
    /\ back = NoAttendee
OffEvents == epc = "off" /\ raw_events = <<>> /\ eresult = <<>> /\ eexc = ""
OffMutate ==
    /\ mpc = "off" /\ mcall = NoCall /\ msent = <<>> /\ mtokens = 0 /\ mstatus = 0
OffCalls == calls = <<>> /\ handed = 0
\* A recipient argument of create_email: None, or a list of (name, address)
\* pairs.
NoneAddrs == [given |-> FALSE, pairs |-> <<>>]
OffMail ==
    /\ mailpc = "off" /\ to_addr = NoneAddrs /\ cc_addr = NoneAddrs
    /\ bcc_addr = NoneAddrs
    /\ headers = NoHeaders

Init ==
    /\ InitFetch
    /\ OffTranslate /\ OffEvents /\ OffMutate /\ OffCalls /\ OffMail

(* ------------------------- pure parts of the code --------------------- *)
\* requests drops the query parameters whose value is None.
WireParams(p) ==
    [k \in DOMAIN p |-> IF p[k] = None THEN Absent ELSE p[k]]

\* Faulty variant of IsDelete: the 'deleted' flag tested for events too.
IsDelete_DeletedFlagOnly(o, item) == item.deleted

\* The test of the classification loops of get_calendars / get_events.
IsDelete(o, item) ==
    IF o = "get_calendars" THEN item.deleted ELSE item.status = "cancelled"

parse_calendar_response(calendar) == [kind |-> "Calendar", uid |-> calendar.id]
parse_event_response(event) == [kind |-> "Event", uid |-> event.id]

ParseItem(o, item) ==
    IF o = "get_calendars" THEN parse_calendar_response(item)
    ELSE parse_event_response(item)

\* The for loop of get_calendars / get_events from item i on.
RECURSIVE ClassifyFrom(_, _, _, _, _)
ClassifyFrom(o, its, i, deletes, updates) ==
    IF i > Len(its) THEN <<deletes, updates>>
    ELSE IF IsDelete(o, its[i])
         THEN ClassifyFrom(o, its, i + 1, Append(deletes, its[i].id), updates)
         ELSE ClassifyFrom(o, its, i + 1, deletes, Append(updates, ParseItem(o, its[i])))

Classify(o, its) == ClassifyFrom(o, its, 1, <<>>, <<>>)

(* ------------------------------ actions ------------------------------- *)
\* Faulty variant of StartResourceList: line 94 left out.
StartResourceList_NoShowDeleted(u, p, rp) ==
    /\ token' = AccessToken(1)
    /\ items' = <<>>
    /\ next_page_token' = None
    /\ url' = u
    /\ params' = p
    /\ remotePages' = rp
    /\ served' = <<>>
    /\ n401' = 0 /\ nNoRaise' = 0 /\ nAcq' = 1 /\ nReq' = 0
    /\ pass' = pass + 1
    /\ pc' = "loop"

\* Lines 91-94: the prologue of _get_resource_list(u, **p), against a query
\* for which the remote holds the pages rp.
StartResourceList(u, p, rp) ==
    /\ token' = AccessToken(1)
    /\ items' = <<>>
    /\ next_page_token' = None
    /\ url' = u
    /\ params' = [p EXCEPT !.showDeleted = "True"]
    /\ remotePages' = rp
    /\ served' = <<>>
    /\ n401' = 0 /\ nNoRaise' = 0 /\ nAcq' = 1 /\ nReq' = 0
    /\ pass' = pass + 1
    /\ pc' = "loop"

get_calendars ==
    /\ pc = "idle"
    /\ op' = "get_calendars"
    /\ \E rp \in PageListsOf(CalendarItems) :
          /\ fullPages' = rp
          /\ StartResourceList(CALENDARS_URL, NoParams, rp)
    /\ UNCHANGED <<sync_from_time, req, lastStatus, result, err>>
    /\ UNCHANGED notFetchVars

get_events ==
    /\ pc = "idle"
    /\ op' = "get_events"
    /\ \E calendar_uid \in CalendarUids, sft \in SyncTimes \cup {None},
          rp \in PageListsOf(EventItems) :
          /\ sync_from_time' = sft
          /\ fullPages' = rp
          /\ \E view \in UpdatedMinViews(rp, sft) :
                StartResourceList(EventsUrl(calendar_uid),
                    [NoParams EXCEPT !.updatedMin = FormatSyncFromTime(sft),
                                     !.singleEvents = "True"], view)
    /\ UNCHANGED <<req, lastStatus, result, err>>
    /\ UNCHANGED notFetchVars

\* Faulty variant of SendRequest: the OAuth object is built once, from the
\* first token.
SendRequest_FirstToken ==
    /\ pc = "loop"
    /\ LET p == IF next_page_token # None
                THEN [params EXCEPT !.pageToken = next_page_token]
                ELSE params
       IN /\ params' = p
          /\ req' = [url |-> url, params |-> WireParams(p),
                     auth |-> OAuth(AccessToken(1))]
    /\ nReq' = Inc(nReq)
    /\ pc' = "wait"
    /\ UNCHANGED <<op, sync_from_time, pass, url, token, items, next_page_token,
                   lastStatus, fullPages, remotePages, served, n401, nNoRaise,
                   nAcq, result, err>>
    /\ UNCHANGED notFetchVars

\* Lines 96-98: set the page cursor and issue the GET.
SendRequest ==
    /\ pc = "loop"
    /\ LET p == IF next_page_token # None
                THEN [params EXCEPT !.pageToken = next_page_token]
                ELSE params
       IN /\ params' = p
          /\ req' = [url |-> url, params |-> WireParams(p), auth |-> OAuth(token)]
    /\ nReq' = Inc(nReq)
    /\ pc' = "wait"
    /\ UNCHANGED <<op, sync_from_time, pass, url, token, items, next_page_token,
                   lastStatus, fullPages, remotePages, served, n401, nNoRaise,
                   nAcq, result, err>>
    /\ UNCHANGED notFetchVars

\* Faulty variant of Recv200More: an item is accumulated once only.
Recv200More_Dedup ==
    /\ pc = "wait"
    /\ LET k == PageIndex(req.params.pageToken, remotePages)
           all == items \o remotePages[k]
           firsts == { i \in 1..Len(all) : \A j \in 1..(i - 1) : all[j] # all[i] }
           Nth[n \in 0..Len(all)] ==
               IF n = 0 THEN <<>>
               ELSE IF n \in firsts THEN Append(Nth[n - 1], all[n]) ELSE Nth[n - 1]
       IN /\ k # 0
          /\ NextPageTokenOf(k, remotePages) # None
          /\ items' = Nth[Len(all)]
          /\ next_page_token' = NextPageTokenOf(k, remotePages)
          /\ served' = Append(served, k)
    /\ lastStatus' = 200
    /\ pc' = "loop"
    /\ UNCHANGED <<op, sync_from_time, pass, url, params, token, req,
                   fullPages, remotePages, n401, nNoRaise, nAcq, nReq, result, err>>
    /\ UNCHANGED notFetchVars

\* Lines 99-102 with next_page_token not None: accumulate and go on.
Recv200More ==
    /\ pc = "wait"
    /\ LET k == PageIndex(req.params.pageToken, remotePages)
       IN /\ k # 0
          /\ NextPageTokenOf(k, remotePages) # None
          /\ items' = items \o remotePages[k]
          /\ next_page_token' = NextPageTokenOf(k, remotePages)
          /\ served' = Append(served, k)
    /\ lastStatus' = 200
    /\ pc' = "loop"
    /\ UNCHANGED <<op, sync_from_time, pass, url, params, token, req,
                   fullPages, remotePages, n401, nNoRaise, nAcq, nReq, result, err>>
    /\ UNCHANGED notFetchVars

\* Lines 99-104 with no nextPageToken: _get_resource_list returns items and
\* the caller (get_calendars lines 30-36, get_events lines 56-61) classifies.
Recv200Last ==
    /\ pc = "wait"
    /\ LET k == PageIndex(req.params.pageToken, remotePages)
       IN /\ k # 0
          /\ NextPageTokenOf(k, remotePages) = None
          /\ items' = items \o remotePages[k]
          /\ next_page_token' = None
          /\ served' = Append(served, k)
          /\ result' = Classify(op, items \o remotePages[k])
    /\ lastStatus' = 200
    /\ pc' = "returned"
    /\ UNCHANGED <<op, sync_from_time, pass, url, params, token, req,
                   fullPages, remotePages, n401, nNoRaise, nAcq, nReq, err>>
    /\ UNCHANGED notFetchVars

\* Faulty variant of Recv401: the pagination starts over on a 401.
Recv401_Restart(capped) ==
    /\ pc = "wait"
    /\ capped => n401 < Max401
    /\ token' = AccessToken(Inc(nAcq))
    /\ items' = <<>>
    /\ next_page_token' = None
    /\ nAcq' = Inc(nAcq)
    /\ n401' = Inc(n401)
    /\ lastStatus' = 401
    /\ pc' = "loop"
    /\ UNCHANGED <<op, sync_from_time, pass, url, params,
                   req, fullPages, remotePages, served, nNoRaise, nReq,
                   result, err>>
    /\ UNCHANGED notFetchVars

\* Faulty variant of Recv401: the rejected token is kept.
Recv401_NoRefresh(capped) ==
    /\ pc = "wait"
    /\ capped => n401 < Max401
    /\ n401' = Inc(n401)
    /\ lastStatus' = 401
    /\ pc' = "loop"
    /\ UNCHANGED <<op, sync_from_time, pass, url, params, token, items,
                   next_page_token, req, fullPages, remotePages, served,
                   nNoRaise, nAcq, nReq, result, err>>
    /\ UNCHANGED notFetchVars

\* Lines 105-108: a new token, then the loop again.
Recv401(capped) ==
    /\ pc = "wait"
    /\ capped => n401 < Max401
    /\ token' = AccessToken(Inc(nAcq))
    /\ nAcq' = Inc(nAcq)
    /\ n401' = Inc(n401)
    /\ lastStatus' = 401
    /\ pc' = "loop"
    /\ UNCHANGED <<op, sync_from_time, pass, url, params, items,
                   next_page_token, req, fullPages, remotePages, served, nNoRaise, nReq,
                   result, err>>
    /\ UNCHANGED notFetchVars

\* Lines 109-110 when raise_for_status does not raise: the loop goes on.
RecvNoRaise ==
    /\ pc = "wait"
    /\ nNoRaise < MaxNoRaise
    /\ \E s \in Statuses \ {200, 401} :
          /\ ~RaisesForStatus(s)
          /\ lastStatus' = s
    /\ nNoRaise' = Inc(nNoRaise)
    /\ pc' = "loop"
    /\ UNCHANGED <<op, sync_from_time, pass, url, params, token, items,
                   next_page_token, req, fullPages, remotePages, served, n401, nAcq, nReq,
                   result, err>>
    /\ UNCHANGED notFetchVars

\* Faulty variant of RecvErrorRefetch: the refetch keeps updatedMin.
RecvErrorRefetch_KeepFilter ==
    /\ pc = "wait"
    /\ op = "get_events" /\ pass = 1
    /\ RaisesForStatus(410)
    /\ lastStatus' = 410
    /\ StartResourceList(url, [params EXCEPT !.pageToken = Absent], remotePages)
    /\ UNCHANGED <<op, sync_from_time, req, fullPages, result, err>>
    /\ UNCHANGED notFetchVars

\* Faulty variant of RecvErrorRefetch: the refetch goes on from the items and
\* the cursor of the failed fetch.
RecvErrorRefetch_KeepItems ==
    /\ pc = "wait"
    /\ op = "get_events" /\ pass = 1
    /\ RaisesForStatus(410)
    /\ lastStatus' = 410
    /\ token' = AccessToken(1)
    /\ params' = [params EXCEPT !.updatedMin = Absent]
    /\ remotePages' = fullPages
    /\ served' = <<>>
    /\ n401' = 0 /\ nNoRaise' = 0 /\ nAcq' = 1 /\ nReq' = 0
    /\ pass' = pass + 1
    /\ pc' = "loop"
    /\ UNCHANGED <<op, sync_from_time, url, items, next_page_token, req,
                   fullPages, result, err>>
    /\ UNCHANGED notFetchVars

\* Faulty variant of RecvErrorRefetch: every 410 of an events fetch is
\* answered by a refetch.
RecvErrorRefetch_EveryTime ==
    /\ pc = "wait"
    /\ op = "get_events"
    /\ RaisesForStatus(410)
    /\ lastStatus' = 410
    /\ StartResourceList(url, [NoParams EXCEPT !.singleEvents = "True"], fullPages)
    /\ UNCHANGED <<op, sync_from_time, req, fullPages, result, err>>
    /\ UNCHANGED notFetchVars

\* Lines 109-110 raising HTTPError 410 out of the first fetch of
\* _get_raw_events (lines 76-81): refetch without updatedMin.
RecvErrorRefetch ==
    /\ pc = "wait"
    /\ op = "get_events" /\ pass = 1
    /\ RaisesForStatus(410)
    /\ lastStatus' = 410
    /\ StartResourceList(url, [NoParams EXCEPT !.singleEvents = "True"], fullPages)
    /\ UNCHANGED <<op, sync_from_time, req, fullPages, result, err>>
    /\ UNCHANGED notFetchVars

\* Faulty variant of RecvErrorRaise: the error ends the loop and the items
\* fetched so far are returned.
RecvErrorRaise_Partial ==
    /\ pc = "wait"
    /\ \E s \in Statuses \ {200, 401} :
          /\ RaisesForStatus(s)
          /\ ~(op = "get_events" /\ pass = 1 /\ s = 410)
          /\ lastStatus' = s
    /\ result' = Classify(op, items)
    /\ pc' = "returned"
    /\ UNCHANGED <<op, sync_from_time, pass, url, params, token, items,
                   next_page_token, req, fullPages, remotePages, served, n401,
                   nNoRaise, nAcq, nReq, err>>
    /\ UNCHANGED notFetchVars

\* Lines 109-110 raising HTTPError, propagated to the caller of
\* get_calendars / get_events (lines 82-83 for the events fetch).
RecvErrorRaise ==
    /\ pc = "wait"
    /\ \E s \in Statuses \ {200, 401} :
          /\ RaisesForStatus(s)
          /\ ~(op = "get_events" /\ pass = 1 /\ s = 410)
          /\ lastStatus' = s
          /\ err' = s
    /\ pc' = "failed"
    /\ UNCHANGED <<op, sync_from_time, pass, url, params, token, items,
                   next_page_token, req, fullPages, remotePages, served, n401, nNoRaise,
                   nAcq, nReq, result>>
    /\ UNCHANGED notFetchVars

Next ==
    \/ get_calendars
    \/ get_events
    \/ SendRequest
    \/ Recv200More
    \/ Recv200Last
    \/ Recv401(TRUE)
    \/ RecvNoRaise
    \/ RecvErrorRefetch
    \/ RecvErrorRaise

Spec == Init /\ [][Next]_vars

\* The same program against a remote that may answer 401 without end; the
\* program always takes its next step and the remote always answers.
NextLive ==
    \/ get_calendars
    \/ get_events
    \/ SendRequest
    \/ Recv200More
    \/ Recv200Last
    \/ Recv401(FALSE)
    \/ RecvNoRaise
    \/ RecvErrorRefetch
    \/ RecvErrorRaise

LiveSpec == Init /\ [][NextLive]_vars /\ WF_vars(NextLive)

TypeOK ==
    /\ pc \in {"idle", "loop", "wait", "returned", "failed"}
    /\ pass \in 0..2
    /\ nReq < CounterCap /\ nAcq < CounterCap /\ n401 < CounterCap

(* ----------------------- attendee translation ------------------------- *)
STATUS_MAP ==
    ("accepted" :> "yes") @@ ("needsAction" :> "noreply") @@
    ("declined" :> "no") @@ ("tentative" :> "maybe")

\* Faulty variant of inv_status_map: {key: value ...}, not inverted.
inv_status_map_NotInverted == STATUS_MAP

\* Line 262: {value: key for key, value in STATUS_MAP.iteritems()}.  The
\* keys of the result are the values of STATUS_MAP; were two keys to share a
\* value, one of them would be kept.
inv_status_map ==
    [v \in {STATUS_MAP[k] : k \in DOMAIN STATUS_MAP} |->
        CHOOSE k \in DOMAIN STATUS_MAP : STATUS_MAP[k] = v]

\* dict.get: None for a key that is not there.
Get(d, k) == IF d[k] = Absent THEN None ELSE d[k]

\* Lines 261-277, for a participant whose status (if any) is in the table.
create_attendee(p) ==
    [displayName      |-> p.name,
     responseStatus   |-> IF p.status # Absent THEN inv_status_map[p.status] ELSE Absent,
     email            |-> p.email,
     additionalGuests |-> p.guests,
     comment          |-> Absent]

\* Lines 210-216: one round of the attendee loop of parse_event_response,
\* for an attendee whose responseStatus is in the table.
ParseParticipant(a) ==
    [email  |-> Get(a, "email"),
     name   |-> Get(a, "displayName"),
     status |-> STATUS_MAP[Get(a, "responseStatus")],
     notes  |-> Get(a, "comment"),
     guests |-> Absent]

LocalInputs ==
    [name : {Absent, "Ann"},
     status : {Absent, "yes", "noreply", "no", "maybe", "unknown"},
     email : {Absent, "ann@x"}, guests : {Absent, "1"}, notes : {Absent}]

RemoteInputs ==
    [displayName : {Absent, "Ann"},
     responseStatus : {Absent, "accepted", "needsAction", "declined",
                       "tentative", "maybe-later"},
     email : {Absent, "ann@x"}, additionalGuests : {Absent},
     comment : {Absent, "hi"}]

\* A local participant about to be pushed, or a remote attendee about to be
\* parsed.
InitTranslate ==
    /\ InitFetch /\ OffEvents /\ OffMutate /\ OffCalls /\ OffMail
    /\ back = NoAttendee
    /\ \/ tpc = "participant" /\ participant \in LocalInputs /\ attendee = NoAttendee
       \/ tpc = "attendee" /\ attendee \in RemoteInputs /\ participant = NoParticipant

\* _create_attendee on the participant (given, or just parsed).
CreateAttendee ==
    /\ tpc \in {"participant", "parsed"}
    /\ participant.status # Absent => participant.status \in DOMAIN inv_status_map
    /\ IF tpc = "participant"
       THEN /\ attendee' = create_attendee(participant)
            /\ tpc' = "dumped"
            /\ back' = back
       ELSE /\ back' = create_attendee(participant)
            /\ tpc' = "parsed_dumped"
            /\ attendee' = attendee
    /\ UNCHANGED <<participant, notTranslateVars>>

\* Line 269 raising KeyError.
CreateAttendeeKeyError ==
    /\ tpc \in {"participant", "parsed"}
    /\ participant.status # Absent
    /\ participant.status \notin DOMAIN inv_status_map
    /\ tpc' = "error"
    /\ UNCHANGED <<participant, attendee, back, notTranslateVars>>

\* The attendee loop of parse_event_response on the attendee (given, or just
\* dumped).
ParseAttendee ==
    /\ tpc \in {"attendee", "dumped"}
    /\ Get(attendee, "responseStatus") \in DOMAIN STATUS_MAP
    /\ IF tpc = "attendee"
       THEN /\ participant' = ParseParticipant(attendee)
            /\ tpc' = "parsed"
            /\ back' = back
       ELSE /\ back' = ParseParticipant(attendee)
            /\ tpc' = "dumped_parsed"
            /\ participant' = participant
    /\ UNCHANGED <<attendee, notTranslateVars>>

\* Line 210 raising KeyError.
ParseAttendeeKeyError ==
    /\ tpc \in {"attendee", "dumped"}
    /\ Get(attendee, "responseStatus") \notin DOMAIN STATUS_MAP
    /\ tpc' = "error"
    /\ UNCHANGED <<participant, attendee, back, notTranslateVars>>

NextTranslate ==
    \/ CreateAttendee
    \/ CreateAttendeeKeyError
    \/ ParseAttendee
    \/ ParseAttendeeKeyError

TranslateSpec == InitTranslate /\ [][NextTranslate]_vars

(* ------------------ get_events after the fetch: parsing --------------- *)
MaxEvents == 2

\* inbox.events.util.parse_datetime on the date and dateTime strings of the
\* model: the instant they denote, in UTC, midnight for a bare date.
parse_datetime(str) ==
    CASE str = "2024-03-01" -> [year |-> 2024, month |-> 3, day |-> 1, hour |-> 0]
      [] str = "2024-03-03" -> [year |-> 2024, month |-> 3, day |-> 3, hour |-> 0]
      [] str = "2024-03-01T10:00:00Z" -> [year |-> 2024, month |-> 3, day |-> 1, hour |-> 10]
      [] str = "2024-03-01T11:00:00Z" -> [year |-> 2024, month |-> 3, day |-> 1, hour |-> 11]

IsLeap(y) == (y % 4 = 0 /\ y % 100 # 0) \/ y % 400 = 0
DaysInMonth(y, m) ==
    IF m = 2 THEN (IF IsLeap(y) THEN 29 ELSE 28)
    ELSE IF m \in {4, 6, 9, 11} THEN 30 ELSE 31

\* dt - datetime.timedelta(days=1)
MinusOneDay(dt) ==
    IF dt.day > 1 THEN [dt EXCEPT !.day = @ - 1]
    ELSE IF dt.month > 1
         THEN [dt EXCEPT !.month = @ - 1, !.day = DaysInMonth(dt.year, dt.month - 1)]
         ELSE [dt EXCEPT !.year = @ - 1, !.month = 12, !.day = 31]

\* Line 183.
IsAllDay(_start, _end) == _start.date # Absent /\ _end.date # Absent

\* Faulty variant of AllDayEnd: the remote's exclusive end date is kept.
AllDayEnd_NoSubtraction(_end) == parse_datetime(_end.date)

\* Line 186.
AllDayEnd(_end) == MinusOneDay(parse_datetime(_end.date))

\* Lines 210: STATUS_MAP[...] raises KeyError for these attendees.
StatusUnknown(a) == Get(a, "responseStatus") \notin DOMAIN STATUS_MAP

\* Lines 175-231, for the fields that depend on start, end and attendees
\* (the others are copied from the item one by one): the Event, or the
\* KeyError of line 188, 189 or 210.
ParseEvent(event) ==
    LET _start == event.start
        _end == event.end
        all_day == IsAllDay(_start, _end)
        attendees == event.attendees
    IN IF ~all_day /\ (_start.dateTime = Absent \/ _end.dateTime = Absent)
       THEN [ok |-> FALSE, exc |-> "KeyError"]
       ELSE IF \E i \in 1..Len(attendees) : StatusUnknown(attendees[i])
       THEN [ok |-> FALSE, exc |-> "KeyError"]
       ELSE [ok |-> TRUE,
             event |-> [kind |-> "Event",
                        uid |-> event.id,
                        all_day |-> all_day,
                        start |-> IF all_day THEN parse_datetime(_start.date)
                                  ELSE parse_datetime(_start.dateTime),
                        end |-> IF all_day THEN AllDayEnd(_end)
                                ELSE parse_datetime(_end.dateTime),
                        participants |-> [i \in 1..Len(attendees) |->
                                             ParseParticipant(attendees[i])]]]

\* Faulty variant of ClassifyEventsFrom: an item that does not parse is left
\* out and the loop goes on.
RECURSIVE ClassifyEventsFrom_SkipUnparsed(_, _, _, _)
ClassifyEventsFrom_SkipUnparsed(its, i, deletes, updates) ==
    IF i > Len(its) THEN [ok |-> TRUE, pair |-> <<deletes, updates>>]
    ELSE IF its[i].status = "cancelled"
         THEN ClassifyEventsFrom_SkipUnparsed(its, i + 1, Append(deletes, its[i].id), updates)
         ELSE IF ParseEvent(its[i]).ok
              THEN ClassifyEventsFrom_SkipUnparsed(its, i + 1, deletes,
                                   Append(updates, ParseEvent(its[i]).event))
              ELSE ClassifyEventsFrom_SkipUnparsed(its, i + 1, deletes, updates)

\* Lines 56-61: the for loop of get_events from item i on; an exception of
\* parse_event_response ends it.
RECURSIVE ClassifyEventsFrom(_, _, _, _)
ClassifyEventsFrom(its, i, deletes, updates) ==
    IF i > Len(its) THEN [ok |-> TRUE, pair |-> <<deletes, updates>>]
    ELSE IF its[i].status = "cancelled"
         THEN ClassifyEventsFrom(its, i + 1, Append(deletes, its[i].id), updates)
         ELSE IF ParseEvent(its[i]).ok
              THEN ClassifyEventsFrom(its, i + 1, deletes,
                                      Append(updates, ParseEvent(its[i]).event))
              ELSE [ok |-> FALSE, exc |-> ParseEvent(its[i]).exc]

StartObjects == [date : {Absent, "2024-03-01"},
                 dateTime : {Absent, "2024-03-01T10:00:00Z"}]
EndObjects == [date : {Absent, "2024-03-03", "2024-03-01"},
               dateTime : {Absent, "2024-03-01T11:00:00Z"}]
AttendeeOf(rs) == [NoAttendee EXCEPT !.responseStatus = rs]
AttendeeLists == { <<>>, <<AttendeeOf("tentative")>>, <<AttendeeOf("maybe-later")>>,
                   <<AttendeeOf("accepted"), AttendeeOf(Absent)>> }

\* One event of any shape, or a list of events that differ in id, status
\* and attendees.
RawEventLists ==
    { <<e>> : e \in [id : {1}, status : {"confirmed", "cancelled"},
                     start : StartObjects, end : EndObjects,
                     attendees : AttendeeLists] }
    \cup UNION { [1..n -> [id : {1, 2}, status : {"confirmed", "cancelled"},
                           start : {[date |-> "2024-03-01", dateTime |-> Absent]},
                           end : {[date |-> "2024-03-03", dateTime |-> Absent]},
                           attendees : AttendeeLists]] : n \in 2..MaxEvents }

\* _get_raw_events has returned (line 55).
InitEvents ==
    /\ InitFetch /\ OffTranslate /\ OffMutate /\ OffCalls /\ OffMail
    /\ epc = "fetched" /\ raw_events \in RawEventLists
    /\ eresult = <<>> /\ eexc = ""

\* Lines 53-61 to the return.
GetEventsReturn ==
    /\ epc = "fetched"
    /\ ClassifyEventsFrom(raw_events, 1, <<>>, <<>>).ok
    /\ eresult' = ClassifyEventsFrom(raw_events, 1, <<>>, <<>>).pair
    /\ epc' = "returned"
    /\ UNCHANGED <<raw_events, eexc, fetchVars, translateVars, mutateVars,
                   callVars, mailVars>>

\* Lines 53-60 to the exception of parse_event_response.
GetEventsRaise ==
    /\ epc = "fetched"
    /\ ~ClassifyEventsFrom(raw_events, 1, <<>>, <<>>).ok
    /\ eexc' = ClassifyEventsFrom(raw_events, 1, <<>>, <<>>).exc
    /\ epc' = "failed"
    /\ UNCHANGED <<raw_events, eresult, fetchVars, translateVars, mutateVars,
                   callVars, mailVars>>

NextEvents ==
    \/ GetEventsReturn
    \/ GetEventsRaise

EventsSpec == InitEvents /\ [][NextEvents]_vars

(* -------------------------- remote mutations -------------------------- *)
\* event.start.strftime('%Y-%m-%d') and datetime.isoformat('T') of the
\* instants of the model.
FormatDate(dt) ==
    CASE dt = [year |-> 2024, month |-> 3, day |-> 1, hour |-> 0] -> "2024-03-01"
      [] dt = [year |-> 2024, month |-> 3, day |-> 1, hour |-> 10] -> "2024-03-01"
      [] dt = [year |-> 2024, month |-> 3, day |-> 1, hour |-> 11] -> "2024-03-01"
      [] dt = [year |-> 2024, month |-> 3, day |-> 2, hour |-> 0] -> "2024-03-02"
IsoFormat(dt) ==
    CASE dt = [year |-> 2024, month |-> 3, day |-> 1, hour |-> 0] -> "2024-03-01T00:00:00"
      [] dt = [year |-> 2024, month |-> 3, day |-> 1, hour |-> 10] -> "2024-03-01T10:00:00"
      [] dt = [year |-> 2024, month |-> 3, day |-> 1, hour |-> 11] -> "2024-03-01T11:00:00"
      [] dt = [year |-> 2024, month |-> 3, day |-> 2, hour |-> 0] -> "2024-03-02T00:00:00"

\* Lines 253-256: the attendees of the participants, the empty ones left out.
DumpAttendees(participants) ==
    LET attendees == [i \in 1..Len(participants) |-> create_attendee(participants[i])]
    IN SelectSeq(attendees, LAMBDA att : att # NoAttendee)

\* Lines 234-258.
dump_event(event) ==
    [summary      |-> event.title,
     description  |-> event.description,
     location     |-> event.location,
     transparency |-> IF event.busy THEN "opaque" ELSE "transparent",
     start        |-> IF event.all_day
                      THEN [date |-> FormatDate(event.start), dateTime |-> Absent,
                            timeZone |-> Absent]
                      ELSE [date |-> Absent, dateTime |-> IsoFormat(event.start),
                            timeZone |-> "UTC"],
     end          |-> IF event.all_day THEN Absent
                      ELSE [date |-> Absent, dateTime |-> IsoFormat(event.end),
                            timeZone |-> "UTC"],
     attendees    |-> IF event.participants # <<>>
                      THEN DumpAttendees(event.participants) ELSE Absent]

\* Lines 113-116; an event without uid gives the collection url.
EventUrl(calendar_uid, event_uid) ==
    "https://www.googleapis.com/calendar/v3/calendars/" \o Quote(calendar_uid)
        \o "/events/" \o Quote(IF event_uid = None THEN "" ELSE event_uid)

LocalEvents ==
    [uid : {None, "e1"}, calendar_uid : CalendarUids,
     title : {"standup"}, description : {None}, location : {None},
     busy : BOOLEAN, all_day : BOOLEAN,
     start : {[year |-> 2024, month |-> 3, day |-> 1, hour |-> 10]},
     end : {[year |-> 2024, month |-> 3, day |-> 1, hour |-> 11]},
     participants : { <<>>, <<NoParticipant>>,
                      <<[NoParticipant EXCEPT !.name = "Ann", !.status = "maybe"]>> }]

InitMutate ==
    /\ InitFetch /\ OffTranslate /\ OffEvents /\ OffCalls /\ OffMail
    /\ mpc = "idle" /\ mcall = NoCall /\ msent = <<>> /\ mtokens = 0 /\ mstatus = 0

\* Lines 113-118: one token, one request.
MakeEventRequest(method, calendar_uid, event_uid, json) ==
    /\ mpc = "idle"
    /\ mcall' = [method |-> method, url |-> EventUrl(calendar_uid, event_uid),
                 json |-> json]
    /\ mtokens' = mtokens + 1
    /\ msent' = Append(msent, [method |-> method,
                               url |-> EventUrl(calendar_uid, event_uid),
                               json |-> json,
                               auth |-> OAuth(AccessToken(mtokens + 1))])
    /\ mpc' = "wait"
    /\ UNCHANGED <<mstatus, fetchVars, translateVars, eventVars, callVars, mailVars>>

\* Lines 122-125.
create_remote_event ==
    /\ mpc = "idle"
    /\ \E event \in LocalEvents :
              MakeEventRequest("post", event.calendar_uid, event.uid, dump_event(event))

\* Lines 128-131.
update_remote_event ==
    /\ mpc = "idle"
    /\ \E event \in LocalEvents :
              MakeEventRequest("put", event.calendar_uid, event.uid, dump_event(event))

\* Lines 133-134.
delete_remote_event ==
    /\ mpc = "idle"
    /\ \E calendar_uid \in CalendarUids, event_uid \in {None, "e1"} :
              MakeEventRequest("delete", calendar_uid, event_uid, Absent)

\* Line 119 raising HTTPError.
MutateRaise ==
    /\ mpc = "wait"
    /\ \E st \in Statuses : RaisesForStatus(st) /\ mstatus' = st
    /\ mpc' = "failed"
    /\ UNCHANGED <<mcall, msent, mtokens, fetchVars, translateVars, eventVars,
                   callVars, mailVars>>

\* Lines 119-120 when raise_for_status does not raise: the response is
\* returned (and create_remote_event reads its body, line 126).
MutateReturn ==
    /\ mpc = "wait"
    /\ \E st \in Statuses : ~RaisesForStatus(st) /\ mstatus' = st
    /\ mpc' = "returned"
    /\ UNCHANGED <<mcall, msent, mtokens, fetchVars, translateVars, eventVars,
                   callVars, mailVars>>

\* Line 126 on a response without a JSON body: r.json() raises ValueError.
CreateNoBody ==
    /\ mpc = "wait"
    /\ mcall.method = "post"
    /\ \E st \in Statuses : ~RaisesForStatus(st) /\ st # 200 /\ mstatus' = st
    /\ mpc' = "failed"
    /\ UNCHANGED <<mcall, msent, mtokens, fetchVars, translateVars, eventVars,
                   callVars, mailVars>>

NextMutate ==
    \/ create_remote_event
    \/ update_remote_event
    \/ delete_remote_event
    \/ MutateRaise
    \/ MutateReturn
    \/ CreateNoBody

MutateSpec == InitMutate /\ [][NextMutate]_vars

(* ------------------------------ create_email -------------------------- *)
MaxAddrs == 2

\* The (name, email_address) pairs of the recipients; a pair may have no name.
AddrPairs == { <<"Ann", "ann@x">>, <<"", "bob@y">> }

\* "list of pairs (name, email_address), or None" (lines 49-50).
AddrArgs ==
    {NoneAddrs} \cup { [given |-> TRUE, pairs |-> l] : l \in SeqsUpTo(AddrPairs, MaxAddrs) }

\* Python truth of a recipient argument: None and the empty list are false.
Truthy(addr) == addr.given /\ addr.pairs # <<>>

\* address.EmailAddress(name, spec).full_spec(): "name <spec>", the bare
\* address when there is no name.
full_spec(name, spec) == IF name = "" THEN spec ELSE name \o " <" \o spec \o ">"

\* u', '.join([full_spec(name, spec) for name, spec in pairs]).
RECURSIVE JoinSpecs(_)
JoinSpecs(pairs) ==
    IF pairs = <<>> THEN ""
    ELSE IF Len(pairs) = 1 THEN full_spec(pairs[1][1], pairs[1][2])
    ELSE full_spec(pairs[1][1], pairs[1][2]) \o ", " \o JoinSpecs(Tail(pairs))

InitMail ==
    /\ InitFetch /\ OffTranslate /\ OffEvents /\ OffMutate /\ OffCalls
    /\ mailpc = "called"
    /\ to_addr \in AddrArgs /\ cc_addr \in AddrArgs /\ bcc_addr \in AddrArgs
    /\ headers = NoHeaders

\* Lines 102-113: the three recipient headers. The comprehension of the Bcc
\* header (line 112) iterates cc_addr.
create_email ==
    /\ mailpc = "called"
    /\ ~(Truthy(bcc_addr) /\ ~cc_addr.given)
    /\ headers' = [To  |-> IF Truthy(to_addr) THEN JoinSpecs(to_addr.pairs) ELSE Absent,
                   Cc  |-> IF Truthy(cc_addr) THEN JoinSpecs(cc_addr.pairs) ELSE Absent,
                   Bcc |-> IF Truthy(bcc_addr) THEN JoinSpecs(cc_addr.pairs) ELSE Absent]
    /\ mailpc' = "returned"
    /\ UNCHANGED <<fetchVars, translateVars, eventVars, mutateVars, callVars,
                   to_addr, cc_addr, bcc_addr>>

\* Line 112 with cc_addr None: iterating None is a TypeError, no message is
\* returned.
create_email_TypeError ==
    /\ mailpc = "called"
    /\ Truthy(bcc_addr) /\ ~cc_addr.given
    /\ mailpc' = "failed"
    /\ UNCHANGED <<fetchVars, translateVars, eventVars, mutateVars, callVars,
                   to_addr, cc_addr, bcc_addr, headers>>

NextMail ==
    \/ create_email
    \/ create_email_TypeError

MailSpec == InitMail /\ [][NextMail]_vars

(* ------------------------- two calls, interleaved --------------------- *)
MaxCallPages == 2
MaxHanded == 4

\* The two calls, of one provider instance or of two: __init__ (lines 22-24)
\* keeps account_id and namespace_id only, everything a call works with
\* is a local of _get_resource_list (lines 91-94).
Calls == {1, 2}

\* The remote list call c reads: n one-item pages, the items of the two calls
\* different.
CallPages(c, n) == [k \in 1..n |-> << 10 * c + k >>]

IdleCall == [op |-> "", pc |-> "idle", url |-> "", params |-> NoParams, token |-> 0,
             items |-> <<>>, next_page_token |-> None, req |-> NoReq,
             pages |-> <<>>, status |-> 0, result |-> None]

InitCalls ==
    /\ InitFetch /\ OffTranslate /\ OffEvents /\ OffMutate /\ OffMail
    /\ calls = [c \in Calls |-> IdleCall]
    /\ handed = 0

notCallVars == <<fetchVars, translateVars, eventVars, mutateVars, mailVars>>

\* get_calendars / get_events up to the loop of _get_resource_list: the token
\* (line 91), the accumulator and the cursor (lines 92-93), the parameters
\* (line 94) are locals of the call.
CallStart(c) ==
    /\ calls[c].pc = "idle"
    /\ handed < MaxHanded
    /\ \E o \in {"get_calendars", "get_events"}, n \in 1..MaxCallPages :
          calls' = [calls EXCEPT ![c] =
                       [IdleCall EXCEPT
                          !.op = o,
                          !.pc = "loop",
                          !.url = IF o = "get_calendars" THEN CALENDARS_URL
                                  ELSE EventsUrl("u@g"),
                          !.params = [NoParams EXCEPT
                                        !.showDeleted = "True",
                                        !.singleEvents =
                                            IF o = "get_events" THEN "True" ELSE Absent],
                          !.token = AccessToken(handed + 1),
                          !.pages = CallPages(c, n)]]
    /\ handed' = handed + 1
    /\ UNCHANGED notCallVars

\* Lines 96-98.
CallSend(c) ==
    /\ calls[c].pc = "loop"
    /\ LET p == IF calls[c].next_page_token # None
                THEN [calls[c].params EXCEPT !.pageToken = calls[c].next_page_token]
                ELSE calls[c].params
       IN calls' = [calls EXCEPT
                      ![c].params = p,
                      ![c].req = [url |-> calls[c].url, params |-> WireParams(p),
                                  auth |-> OAuth(calls[c].token)],
                      ![c].pc = "wait"]
    /\ UNCHANGED handed
    /\ UNCHANGED notCallVars

\* The page the remote serves to the request of call c, 0 if none.
CallPageIndex(c) == PageIndex(calls[c].req.params.pageToken, calls[c].pages)

\* Faulty variant of CallRecv200More: the cursor is kept where every call
\* reads it.
CallRecv200More_SharedCursor(c) ==
    /\ calls[c].pc = "wait"
    /\ LET k == CallPageIndex(c)
       IN /\ k # 0
          /\ NextPageTokenOf(k, calls[c].pages) # None
          /\ calls' = [d \in Calls |->
                         IF d = c
                         THEN [calls[c] EXCEPT
                                 !.status = 200,
                                 !.items = @ \o calls[c].pages[k],
                                 !.next_page_token = NextPageTokenOf(k, calls[c].pages),
                                 !.pc = "loop"]
                         ELSE [calls[d] EXCEPT
                                 !.next_page_token = NextPageTokenOf(k, calls[c].pages)]]
    /\ UNCHANGED handed
    /\ UNCHANGED notCallVars

\* Lines 99-104, a page with a nextPageToken.
CallRecv200More(c) ==
    /\ calls[c].pc = "wait"
    /\ LET k == CallPageIndex(c)
       IN /\ k # 0
          /\ NextPageTokenOf(k, calls[c].pages) # None
          /\ calls' = [calls EXCEPT
                         ![c].status = 200,
                         ![c].items = @ \o calls[c].pages[k],
                         ![c].next_page_token = NextPageTokenOf(k, calls[c].pages),
                         ![c].pc = "loop"]
    /\ UNCHANGED handed
    /\ UNCHANGED notCallVars

\* Lines 99-104, the last page: the call returns its accumulator.
CallRecv200Last(c) ==
    /\ calls[c].pc = "wait"
    /\ LET k == CallPageIndex(c)
       IN /\ k # 0
          /\ NextPageTokenOf(k, calls[c].pages) = None
          /\ calls' = [calls EXCEPT
                         ![c].status = 200,
                         ![c].items = @ \o calls[c].pages[k],
                         ![c].next_page_token = None,
                         ![c].result = calls[c].items \o calls[c].pages[k],
                         ![c].pc = "returned"]
    /\ UNCHANGED handed
    /\ UNCHANGED notCallVars

\* Lines 105-108: a new token for this call, from the token manager.
CallRecv401(c) ==
    /\ calls[c].pc = "wait"
    /\ handed < MaxHanded
    /\ calls' = [calls EXCEPT
                   ![c].status = 401,
                   ![c].token = AccessToken(handed + 1),
                   ![c].pc = "loop"]
    /\ handed' = handed + 1
    /\ UNCHANGED notCallVars

\* Lines 109-110, raise_for_status does not raise: the loop goes on.
CallRecvNoRaise(c) ==
    /\ calls[c].pc = "wait"
    /\ calls' = [calls EXCEPT ![c].status = 304, ![c].pc = "loop"]
    /\ UNCHANGED handed
    /\ UNCHANGED notCallVars

\* Lines 109-110, raise_for_status raises.
CallRecvError(c) ==
    /\ calls[c].pc = "wait"
    /\ \E s \in {410, 500} :
          calls' = [calls EXCEPT ![c].status = s, ![c].pc = "failed"]
    /\ UNCHANGED handed
    /\ UNCHANGED notCallVars

NextCalls ==
    \E c \in Calls :
        \/ CallStart(c)
        \/ CallSend(c)
        \/ CallRecv200More(c)
        \/ CallRecv200Last(c)
        \/ CallRecv401(c)
        \/ CallRecvNoRaise(c)
        \/ CallRecvError(c)

ConcurrentSpec == InitCalls /\ [][NextCalls]_vars

(* --------------------- vocabulary of the properties ------------------- *)
RECURSIVE Concat(_)
Concat(pages) == IF pages = <<>> THEN <<>> ELSE Head(pages) \o Concat(Tail(pages))

Last(s) == s[Len(s)]

\* The ids of the items of its that the remote marks as gone, in order.
GoneIds(o, its) ==
    LET gone == SelectSeq(its, LAMBDA x : IF o = "get_calendars" THEN x.deleted
                                          ELSE x.status = "cancelled")
    IN [i \in 1..Len(gone) |-> gone[i].id]

\* The records built from the other items of its, in order.
KeptRecords(o, its) ==
    LET kept == SelectSeq(its, LAMBDA x : IF o = "get_calendars" THEN ~x.deleted
                                          ELSE x.status # "cancelled")
    IN [i \in 1..Len(kept) |->
          [kind |-> IF o = "get_calendars" THEN "Calendar" ELSE "Event",
           uid |-> kept[i].id]]

\* The cursor the remote handed out with the last page it served, this pass.
CursorHandedOut ==
    IF served = <<>> THEN Absent ELSE NextPageTokenOf(Last(served), remotePages)

AllPagesInOrder == served = [i \in 1..Len(remotePages) |-> i]

(* ------------------------------ properties ---------------------------- *)
\* C1: a fetch that returns gives the concatenation of all pages of the
\* remote list in remote order, each page served once and in order, and
\* every request carries the cursor handed out with the page before it
\* (none for the first page), whatever 401s came in between.
C1_PaginationCompleteness ==
    /\ pc = "returned" => (items = Concat(remotePages) /\ AllPagesInOrder)
    /\ pc = "wait" => req.params.pageToken = CursorHandedOut

C1_Witness ==
    /\ pc = "returned" /\ n401 >= 1
    /\ Len(remotePages) >= 2 /\ Len(items) >= 3
    /\ \E i, j \in 1..Len(items) : i < j /\ items[i] = items[j]

\* C2: handling a 401 changes neither the accumulator nor the cursor nor
\* the parameters nor the URL, and the request sent right after a 401 has
\* the URL and the parameters of the request that got the 401.
C2_RetryKeepsRequest ==
    [][ /\ (pc = "wait" /\ pc' = "loop" /\ lastStatus' = 401) =>
              /\ items' = items
              /\ next_page_token' = next_page_token
              /\ params' = params
              /\ url' = url
        /\ (pc = "loop" /\ pc' = "wait" /\ lastStatus = 401) =>
              /\ req'.url = req.url
              /\ req'.params = req.params ]_vars

C2_Witness ==
    /\ pc = "wait" /\ lastStatus = 401
    /\ req.params.pageToken # Absent /\ items # <<>>

\* C3: with sync_from_time set, a 410 of the incremental fetch never
\* reaches the caller; the second fetch asks without updatedMin, and when it
\* succeeds get_events returns the classification of the full list.
C3_GoneFallsBackToFullFetch ==
    (op = "get_events" /\ sync_from_time # None) =>
        /\ (pc = "failed" /\ err = 410) => pass = 2
        /\ (pass = 2 /\ nReq > 0) => req.params.updatedMin = Absent
        /\ (pass = 2 /\ pc = "returned") =>
              /\ err = 0
              /\ result = <<GoneIds(op, Concat(fullPages)),
                            KeptRecords(op, Concat(fullPages))>>

C3_Witness ==
    /\ op = "get_events" /\ sync_from_time # None
    /\ pass = 2 /\ pc = "returned"
    /\ Len(fullPages) >= 2
    /\ result[1] # <<>> /\ result[2] # <<>>

\* C4: eventually the call has ended or the remote has answered something
\* other than 401 (the loop does not go on for ever on 401 answers alone).
C4_StopsOnPersistent401 ==
    <>(pc \in {"returned", "failed"} \/ served # <<>> \/ nNoRaise > 0 \/ pass > 1)

\* C5: a response whose status is neither 2xx nor 401 ends the running
\* _get_resource_list with an error of that status: either the caller fails
\* with it or (410 in the first events fetch) the fetch is started afresh.
C5_OtherStatusFails ==
    [][ (pc = "wait" /\ pc' # "wait"
         /\ ~(200 <= lastStatus' /\ lastStatus' < 300) /\ lastStatus' # 401) =>
            \/ pc' = "failed" /\ err' = lastStatus' /\ result' = <<>>
            \/ lastStatus' = 410 /\ pass' = pass + 1 /\ items' = <<>> ]_vars

\* C6: on return every fetched item is in exactly one list: the ids of the
\* gone items (deleted / status cancelled) in order in the first, one record
\* per other item in order in the second, and the lengths add up.
C6_ClassifiedExactlyOnce ==
    pc = "returned" =>
        /\ Len(result) = 2
        /\ result[1] = GoneIds(op, items)
        /\ result[2] = KeptRecords(op, items)
        /\ Len(result[1]) + Len(result[2]) = Len(items)

C6_Witness ==
    /\ pc = "returned" /\ op = "get_events"
    /\ Len(result[1]) >= 2 /\ Len(result[2]) >= 2

\* C7: a sync pass returns the pair built from every page of the list, or
\* fails with an error and no pair; before that there is no pair.
C7_AllOrNothing ==
    /\ pc = "returned" =>
          /\ err = 0 /\ AllPagesInOrder
          /\ result = <<GoneIds(op, Concat(remotePages)),
                        KeptRecords(op, Concat(remotePages))>>
    /\ pc = "failed" => (err # 0 /\ result = <<>>)
    /\ pc \notin {"returned", "failed"} => (err = 0 /\ result = <<>>)

C7_Witness ==
    /\ pc = "failed" /\ served # <<>> /\ items # <<>>
    /\ Len(served) < Len(remotePages)

\* C8: in a _get_resource_list call the number of token acquisitions is one
\* more than the number of 401 responses.
C8_AcquisitionsFollow401s ==
    pass >= 1 => nAcq = 1 + n401

C8_Witness ==
    /\ pc = "returned" /\ n401 = 1 /\ nAcq = 2 /\ nReq = 2

\* C9: every GET carries showDeleted, and every GET of an events fetch
\* carries singleEvents.
C9_ForcedParameters ==
    nReq > 0 =>
        /\ req.params.showDeleted = "True"
        /\ op = "get_events" => req.params.singleEvents = "True"

C9_Witness ==
    /\ op = "get_events" /\ pass = 2 /\ pc = "wait"
    /\ lastStatus = 401 /\ req.params.pageToken # Absent
RemoteStatuses == {"accepted", "needsAction", "declined", "tentative"}
LocalStatuses == {"yes", "noreply", "no", "maybe"}

\* C10: the two tables are inverse bijections between the four remote and
\* the four local statuses, and an attendee status translated there and back
\* (parse then dump, dump then parse) comes back as it was.
C10_StatusRoundTrip ==
    /\ DOMAIN STATUS_MAP = RemoteStatuses
    /\ DOMAIN inv_status_map = LocalStatuses
    /\ \A y \in RemoteStatuses :
          /\ STATUS_MAP[y] \in DOMAIN inv_status_map
          /\ inv_status_map[STATUS_MAP[y]] = y
    /\ \A x \in LocalStatuses \cap DOMAIN inv_status_map :
          /\ inv_status_map[x] \in DOMAIN STATUS_MAP
          /\ STATUS_MAP[inv_status_map[x]] = x
    /\ tpc = "parsed_dumped" => back.responseStatus = attendee.responseStatus
    /\ tpc = "dumped_parsed" => back.status = participant.status
    /\ (tpc = "participant" /\ participant.status \in LocalStatuses) => ENABLED CreateAttendee
    /\ (tpc = "attendee" /\ attendee.responseStatus \in RemoteStatuses) => ENABLED ParseAttendee

C10_Witness ==
    /\ tpc = "parsed_dumped"
    /\ attendee.responseStatus = "tentative"
    /\ participant.status = "maybe"
    /\ back.responseStatus = "tentative"
\* C15: the refetch after a 410 starts from nothing: the accumulator is
\* empty and the cursor unset whatever the failed fetch had accumulated, its
\* first request carries neither pageToken nor updatedMin, and what it
\* returns is the full list alone.
C15_RefetchFromScratch ==
    [][ /\ (pass = 1 /\ pass' = 2) =>
              /\ items' = <<>>
              /\ next_page_token' = None
              /\ params'.pageToken = Absent
              /\ params'.updatedMin = Absent
        /\ (pass = 2 /\ nReq = 0 /\ nReq' = 1) =>
              /\ req'.params.pageToken = Absent
              /\ req'.params.updatedMin = Absent
        /\ (pass = 2 /\ pc' = "returned") =>
              items' = Concat(fullPages) ]_vars

\* The refetch is about to send its first request; the last request of the
\* failed fetch asked for a later page, with updatedMin.
C15_Witness ==
    /\ op = "get_events" /\ sync_from_time # None
    /\ pass = 2 /\ pc = "loop" /\ nReq = 0
    /\ req.params.pageToken # Absent /\ req.params.updatedMin # Absent
    /\ items = <<>> /\ Concat(fullPages) # <<>>

\* C16: get_events runs at most two fetches and get_calendars one; a 410
\* received by the refetch or by get_calendars ends the call with error 410
\* and no further request.
C16_GoneRecoveredOnce ==
    [][ /\ pass' <= 2
        /\ op' = "get_calendars" => pass' <= 1
        /\ (pc = "wait" /\ pc' # "wait" /\ lastStatus' = 410
            /\ (op = "get_calendars" \/ pass = 2)) =>
              /\ pc' = "failed" /\ err' = 410 /\ result' = <<>>
              /\ pass' = pass /\ nReq' = nReq ]_vars

C16_Witness ==
    /\ op = "get_events" /\ pass = 2
    /\ pc = "failed" /\ err = 410 /\ served # <<>>

\* C17: a request in flight carries the token acquired last, and the request
\* that follows a 401 does not carry the token of the request before it.
C17_LatestToken ==
    /\ pc = "wait" => (req.auth = <<"Bearer", nAcq>> /\ token = nAcq)
    /\ (pc = "wait" /\ lastStatus = 401) => req.auth # <<"Bearer", nAcq - 1>>

C17_Witness ==
    /\ pc = "wait" /\ lastStatus = 401 /\ n401 = 2
    /\ req.auth = <<"Bearer", 3>>

\* C18: a fetch that returns has issued as many requests as it got pages
\* and 401 responses.
C18_RequestsArePagesPlus401s ==
    pc = "returned" => nReq = Len(served) + n401
\* The items get_events parses, in order, and whether one of them has an
\* attendee whose responseStatus is not a key of the table (or is missing).
KeptEvents == SelectSeq(raw_events, LAMBDA e : e.status # "cancelled")
HasUnknownStatus(e) ==
    \E i \in 1..Len(e.attendees) :
        e.attendees[i].responseStatus \notin RemoteStatuses

\* C11: when a non-cancelled item has an attendee with an unknown or missing
\* responseStatus, get_events raises and returns no pair, wherever the item
\* is; a pair that is returned holds table statuses only.
C11_UnknownStatusFails ==
    /\ (\E k \in 1..Len(KeptEvents) : HasUnknownStatus(KeptEvents[k])) =>
          /\ epc # "returned" /\ eresult = <<>>
          /\ epc = "fetched" => (ENABLED GetEventsRaise /\ ~ENABLED GetEventsReturn)
          /\ epc = "failed" => eexc = "KeyError"
    /\ epc = "returned" =>
          \A k \in 1..Len(eresult[2]) : \A i \in 1..Len(eresult[2][k].participants) :
              /\ eresult[2][k].participants[i].status \in LocalStatuses
              /\ KeptEvents[k].attendees[i].responseStatus \in RemoteStatuses

C11_Witness ==
    /\ epc = "failed" /\ eexc = "KeyError" /\ eresult = <<>>
    /\ Len(raw_events) = 2
    /\ ~HasUnknownStatus(raw_events[1]) /\ raw_events[1].status = "confirmed"
    /\ raw_events[2].status = "confirmed"
    /\ raw_events[2].attendees = <<AttendeeOf("maybe-later")>>

\* The instants the strings of the model denote, and the day before.
InstantOf ==
    ("2024-03-01" :> <<2024, 3, 1, 0>>) @@ ("2024-03-03" :> <<2024, 3, 3, 0>>) @@
    ("2024-03-01T10:00:00Z" :> <<2024, 3, 1, 10>>) @@
    ("2024-03-01T11:00:00Z" :> <<2024, 3, 1, 11>>)
DayBefore == ("2024-03-03" :> <<2024, 3, 2, 0>>) @@ ("2024-03-01" :> <<2024, 2, 29, 0>>)
AsTuple(dt) == <<dt.year, dt.month, dt.day, dt.hour>>

\* C12: an event that parses is all_day exactly when its start and its end
\* both carry a date; then start is the start date and end the day before
\* the end date; otherwise start and end are the two dateTime instants.
C12_AllDayEnd ==
    epc = "returned" =>
        /\ Len(eresult[2]) = Len(KeptEvents)
        /\ \A k \in 1..Len(KeptEvents) :
              LET e == KeptEvents[k]
                  ev == eresult[2][k]
              IN /\ ev.all_day = (e.start.date # Absent /\ e.end.date # Absent)
                 /\ ev.all_day =>
                       /\ AsTuple(ev.start) = InstantOf[e.start.date]
                       /\ AsTuple(ev.end) = DayBefore[e.end.date]
                 /\ ~ev.all_day =>
                       /\ AsTuple(ev.start) = InstantOf[e.start.dateTime]
                       /\ AsTuple(ev.end) = InstantOf[e.end.dateTime]

C12_Witness ==
    /\ epc = "returned" /\ Len(raw_events) = 1 /\ Len(eresult[2]) = 1
    /\ raw_events[1].start.date = "2024-03-01"
    /\ raw_events[1].end.date = "2024-03-03"
    /\ raw_events[1].start.dateTime # Absent
    /\ eresult[2][1].all_day
    /\ AsTuple(eresult[2][1].start) = <<2024, 3, 1, 0>>
    /\ AsTuple(eresult[2][1].end) = <<2024, 3, 2, 0>>
\* C13: a remote mutation acquires one token and issues one request, and
\* once a response that is not 2xx has come the operation has raised.
C13_OneRequestRaisesOnNon2xx ==
    /\ mpc \in {"wait", "returned", "failed"} => (mtokens = 1 /\ Len(msent) = 1)
    /\ (mstatus # 0 /\ ~(200 <= mstatus /\ mstatus < 300)) => mpc = "failed"

\* C19: create_email builds each recipient header from its own argument: with
\* a non-empty bcc_addr the call returns a message whose Bcc header lists the
\* pairs of bcc_addr in order, whatever cc_addr is, as To lists to_addr and
\* Cc lists cc_addr.
C19_BccFromBccAddr ==
    /\ (mailpc \in {"returned", "failed"} /\ Truthy(bcc_addr)) =>
            (mailpc = "returned" /\ headers.Bcc = JoinSpecs(bcc_addr.pairs))
    /\ (mailpc = "returned" /\ Truthy(to_addr)) => headers.To = JoinSpecs(to_addr.pairs)
    /\ (mailpc = "returned" /\ Truthy(cc_addr)) => headers.Cc = JoinSpecs(cc_addr.pairs)

\* C14: two sync calls with their steps interleaved are independent: a step
\* of one call leaves every local of the other (cursor, parameter map,
\* accumulator, token) as it was, each request carries the caller's own
\* cursor and token, and a call that returns returns what it returns alone
\* against its remote list.
C14_CallsIndependent ==
    [][ /\ \E c \in Calls : \A d \in Calls \ {c} : calls'[d] = calls[d]
        /\ \A c \in Calls :
              /\ calls'[c].pc = "returned" => calls'[c].result = Concat(calls'[c].pages)
              /\ calls'[c].pc = "wait" =>
                    /\ calls'[c].req.auth = OAuth(calls'[c].token)
                    /\ calls'[c].req.params.pageToken =
                          (IF calls'[c].next_page_token = None THEN Absent
                           ELSE calls'[c].next_page_token) ]_vars

\* Both calls have returned all their pages, the second having started
\* between the first one's start and its token refresh.
C14_Witness ==
    /\ calls # <<>>
    /\ \A c \in Calls : calls[c].pc = "returned" /\ Len(calls[c].pages) = MaxCallPages
    /\ calls[1].token = AccessToken(3) /\ calls[2].token = AccessToken(2)
====
